---- MODULE Spec2Model ----
(***************************************************************************)
(* Model of calculate_glicko2_ratings (src/utils/glickoHelpers.py): the    *)
(* chronological Glicko-2 replay over a match list.                       *)
(*                                                                         *)
(* Floats are modelled in fixed point.  Glicko-scale quantities (mu, phi,  *)
(* volatility, g, E) carry 5 decimals (Scale); ratings and deviations on   *)
(* the external scale are held in thousandths of a rating point, and the   *)
(* returned table is rounded to hundredths as the code's round(2) does.    *)
(***************************************************************************)
EXTENDS Integers, Sequences, FiniteSets, TLC

\* ------------------------------------------------------------ fixed point

\* Resolution of the Glicko-scale fixed-point numbers (1.0 is Scale).
Scale == 100000

Abs[x \in Int] == IF x < 0 THEN -x ELSE x

Sign[x \in Int] == IF x < 0 THEN -1 ELSE 1

\* The arithmetic below is written as functions, whose arguments are values:
\* each is evaluated once, however often its body uses it.

\* a / b rounded to the nearest integer, the sign kept.
RoundDiv[a \in Int, b \in Int] == Sign[a] * ((Abs[a] + b \div 2) \div b)

\* a * b / Scale for non-negative a, b (the product is formed in two parts, so
\* that no intermediate value leaves 32 bits).
MulPos[a \in Int, b \in Int] == ((a \div 1000) * b) \div 100 + ((a % 1000) * b + 50000) \div 100000

\* a * b on the Glicko scale.
MulS[a \in Int, b \in Int] == Sign[a] * Sign[b] * MulPos[Abs[a], Abs[b]]

\* a * Scale / b for non-negative a and positive b (a long division in three
\* stages: the integer part, two decimals, three decimals).
DivPos[a \in Int, b \in Int] ==
    LET q0 == a \div b
        r0 == a % b
        q1 == (r0 * 100) \div b
        r1 == (r0 * 100) % b
        q2 == (r1 * 1000 + b \div 2) \div b
    IN q0 * 100000 + q1 * 1000 + q2

\* a / b on the Glicko scale, b positive.
DivS[a \in Int, b \in Int] == Sign[a] * DivPos[Abs[a], b]

SqrtIter[n \in Int, x \in Int] ==
    LET y == (x + n \div x) \div 2
    IN IF y >= x THEN x ELSE SqrtIter[n, y]

\* The integer square root of n >= 0.
ISqrt[n \in Int] == IF n < 2 THEN n ELSE SqrtIter[n, n \div 2 + 1]

\* One Newton step towards the square root of x from y, on the Glicko scale.
NewtonSqrt[x \in Int, y \in Int] == (y + DivPos[x, y] + 1) \div 2

\* math.sqrt on the Glicko scale: an integer root for the leading digits, then
\* two Newton steps at full resolution.
SqrtS[x \in Int] ==
    IF x <= 0 THEN 0
    ELSE NewtonSqrt[x, NewtonSqrt[x, ISqrt[x * 10] * 100]]

Halve[x \in Int, k \in Int] == IF k = 0 \/ x = 0 THEN x ELSE Halve[x \div 2, k - 1]

\* math.exp(-y) for y >= 0 on the Glicko scale: y = k ln 2 + r, the series of
\* exp(-r) in Horner form, then k halvings.
ExpNeg[y \in Int] ==
    LET k  == y \div 69315
        r  == y % 69315
        t8 == Scale - MulPos[r, Scale] \div 8
        t7 == Scale - MulPos[r, t8] \div 7
        t6 == Scale - MulPos[r, t7] \div 6
        t5 == Scale - MulPos[r, t6] \div 5
        t4 == Scale - MulPos[r, t5] \div 4
        t3 == Scale - MulPos[r, t4] \div 3
        t2 == Scale - MulPos[r, t3] \div 2
        t1 == Scale - MulPos[r, t2]
    IN Halve[t1, k]

\* 1 / (1 + math.exp(-x)) given e = math.exp(-|x|).
LogisticOf[x \in Int, e \in Int] ==
    IF x >= 0 THEN DivPos[Scale, Scale + e] ELSE DivPos[e, Scale + e]

\* 1 / (1 + math.exp(-x)) on the Glicko scale.
Logistic[x \in Int] == LogisticOf[x, ExpNeg[Abs[x]]]

\* ------------------------------------------------- glicko2.Player (library)

\* 173.7178, the factor between the external scale (thousandths of a point)
\* and the Glicko scale.
GlickoFactor == 173718

\* glicko2.Player() defaults, in thousandths of a rating point.
DefaultRating == 1500000

DefaultRd == 350000

\* The default volatility 0.06 and the system constant tau squared (0.5 ^ 2),
\* on the Glicko scale.
DefaultVol == 6000

TauSquared == 25000

\* The values of a glicko2.Player object: mu and phi are the name-mangled
\* __rating and __rd the object keeps on the Glicko scale.
PlayerObject == [mu : Int, phi : Int, vol : Int]

\* Player.__init__: setRating, setRd and vol; the object keeps mu and phi.
NewPlayer ==
    [mu |-> DivS[DefaultRating - DefaultRating, GlickoFactor],
     phi |-> DivS[DefaultRd, GlickoFactor],
     vol |-> DefaultVol]

\* Player.rating (getRating) and Player.rd (getRd).
getRating[p \in PlayerObject] == DefaultRating + MulS[p.mu, GlickoFactor]

getRd[p \in PlayerObject] == MulS[p.phi, GlickoFactor]

\* Player._g, on an opponent's Glicko-scale deviation.
glicko_g[phi \in Int] ==
    DivPos[Scale, SqrtS[Scale + MulS[MulS[phi, phi], 30396]]]

\* Player._E: the expected score against an opponent of rating mu_j, g being
\* Player._g of the opponent's deviation.
glicko_E[g \in Int, mu \in Int, mu_j \in Int] == Logistic[MulS[g, mu - mu_j]]

\* 1 / Player._v: g^2 E (1 - E) for the single opponent of the call.
glicko_vinv[g \in Int, e \in Int] == MulS[MulS[g, g], MulS[e, Scale - e]]

\* Player._newVol: the root x of f(x) = 0 at first order around a = ln vol^2,
\* written with d = delta / v and 1 / v so that v itself is never formed:
\*   x - a = tau^2 vol^2 (d^2 - (phi^2 + vol^2) / v^2 - 1 / v)
\*                     / (2 ((phi^2 + vol^2) / v + 1)^2)
\* and the new volatility is vol exp((x - a) / 2).
glicko_newVol[p \in PlayerObject, d \in Int, vinv \in Int] ==
    LET s2  == MulS[p.vol, p.vol]
        p2  == MulS[p.phi, p.phi] + s2
        num == MulS[d, d] - MulS[p2, MulS[vinv, vinv]] - vinv
        den == 2 * MulS[MulS[p2, vinv] + Scale, MulS[p2, vinv] + Scale]
        h   == MulS[TauSquared, DivS[MulS[s2, num], den]]
    IN p.vol + RoundDiv[MulS[p.vol, h], 2]

\* The end of update_player: the rating moves by phi'^2 g (outcome - E).
UpdateRating[p \in PlayerObject, d \in Int, vol1 \in Int, phi1 \in Int] ==
    [mu |-> p.mu + MulS[MulS[phi1, phi1], d], phi |-> phi1, vol |-> vol1]

\* _preRatingRD with the new volatility, then the new deviation
\* 1 / sqrt(1 / phi*^2 + 1 / v).
UpdateRd[p \in PlayerObject, d \in Int, vinv \in Int, vol1 \in Int] ==
    UpdateRating[p, d, vol1,
        SqrtS[DivPos[Scale,
            DivPos[Scale, MulS[p.phi, p.phi] + MulS[vol1, vol1]] + vinv]]]

\* update_player once g and E of the opponent are known; d is
\* g (outcome - E), the sum the code calls tempSum.
UpdateWith[p \in PlayerObject, g \in Int, e \in Int, outcome \in Int] ==
    UpdateRd[p, MulS[g, outcome - e], glicko_vinv[g, e],
             glicko_newVol[p, MulS[g, outcome - e], glicko_vinv[g, e]]]

\* update_player once the opponent is on the Glicko scale.
UpdateAgainst[p \in PlayerObject, mu_j \in Int, g \in Int, outcome \in Int] ==
    UpdateWith[p, g, glicko_E[g, p.mu, mu_j], outcome]

\* Player.update_player([rating_j], [rd_j], [outcome]): one opponent, given on
\* the external scale; outcome is 1.0, 0.5 or 0.0 on the Glicko scale.
update_player[p \in PlayerObject, rating_j \in Int, rd_j \in Int, outcome \in Int] ==
    UpdateAgainst[p, DivS[rating_j - DefaultRating, GlickoFactor],
                  glicko_g[DivS[rd_j, GlickoFactor]], outcome]

\* ------------------------------------------------------------- the tables

\* np.nan / a missing (NA) cell of a DataFrame.
NaN == -1

\* The ids of the roster the model draws from, and an id no roster holds.
PlayerIds == {1, 2, 3}

UnknownId == 9

\* The values a cell of the 'dnf' column can hold: the two booleans, their
\* string forms, a number, a missing value, any other string.
DnfValues ==
    {"bool_False", "bool_True", "str_False", "str_True",
     "int_0", "int_1", "nan", "str_other"}

\* A row of matches_df.
MatchRow(doc, date, w, l, dnf, outcome, ev) ==
    [documentCode |-> doc, matchDate |-> date, winnerId |-> w, loserId |-> l,
     dnf |-> dnf, Winner |-> outcome, eventId |-> ev]

VARIABLES
    players_df,          \* the roster: a sequence of playerId
    matches_df,          \* the match list: a sequence of MatchRow
    argsort,             \* the row order sort_values('matchDate') yields for matches_df
    pc,                  \* "start", "loop", "done" or "raised"
    player_cache,        \* playerId -> [glicko_obj, match_count]
    matches_to_rate_df,  \* the sorted and filtered rows the loop iterates
    i,                   \* the number of rows of matches_to_rate_df consumed
    ratings_history,     \* the pre-allocated columns, one record per row
    update_calls,        \* the arguments of the update_player calls, per rated row
    results_df,          \* the returned table
    run,                 \* the number of the current call
    prev_results,        \* the table the previous call returned
    printed              \* the lines the current call has printed

\* The state of the utilities beside the replayer (utils/winrates.py,
\* utils/fetchPayloads.py, utils/filterPayloads.py).
VARIABLES
    master_matches_df,   \* the match table the win-rate functions aggregate
    returned,            \* the last utility call: function, info_string, value
    disk,                \* directory -> the files in it (name and content)
    events_shortlist,    \* the events table get_payloads_to_scrape reconciles
    payloads_files,      \* the sorted glob result filter_singles_payloads loops over
    file_pos,            \* the number of payloads_files consumed
    success_ids,         \* the four lists filter_singles_payloads returns
    no_singles_ids,
    no_data_ids,
    error_ids

utils_vars ==
    <<master_matches_df, returned, disk, events_shortlist, payloads_files,
      file_pos, success_ids, no_singles_ids, no_data_ids, error_ids>>

vars ==
    <<players_df, matches_df, argsort, pc, player_cache, matches_to_rate_df, i,
      ratings_history, update_calls, results_df, run, prev_results, printed,
      utils_vars>>

\* ---------------------------------------------------------- utility values

\* The directories the utilities read and write: winrates_dir, the raw payload
\* directory and the directory of the filtered payloads.
Dirs == {"Winrates", "Match_payloads", "Singles_payloads"}

\* A Python object: its type, its value (the characters of a str, the rows of
\* a DataFrame, the items of a list) and, for a table, the text its column
\* names carry.
Obj(type, value, label) == [type |-> type, value |-> value, label |-> label]

None == Obj("NoneType", <<>>, <<>>)

Str(chars) == Obj("str", chars, <<>>)

\* No utility has been called.
NotCalled == [fn |-> "", info_string |-> None, value |-> None]

\* The utilities' state while only the replayer runs.
UtilsIdle ==
    /\ master_matches_df = <<>>
    /\ returned = NotCalled
    /\ disk = [d \in Dirs |-> {}]
    /\ events_shortlist = [columns |-> {}, rows |-> <<>>]
    /\ payloads_files = <<>>
    /\ file_pos = 0
    /\ success_ids = <<>>
    /\ no_singles_ids = <<>>
    /\ no_data_ids = <<>>
    /\ error_ids = <<>>

\* ------------------------------------------------------- sorting, filtering

\* The permutations of 1..n, as sequences.
Perms(n) ==
    {f \in [1..n -> 1..n] : \A a, b \in 1..n : a # b => f[a] # f[b]}

\* Mutant of SortOrders: the match list is left in its input order.
UnsortedOrders(df) == {[k \in 1..Len(df) |-> k]}

\* sort_values('matchDate'), kind='quicksort': ascending by date; the default
\* kind is not a stable sort, so rows of equal date may come out in any order.
SortOrders(df) ==
    {f \in Perms(Len(df)) :
        \A a, b \in 1..Len(df) :
            a < b => df[f[a]].matchDate <= df[f[b]].matchDate}

\* df reindexed by an order.
Reindex(df, order) == [k \in 1..Len(df) |-> df[order[k]]]

\* Series == False: Python's ==, under which the number 0 equals False.
EqFalse(cell) == cell \in {"bool_False", "int_0"}

\* Series == 'False'.
EqStrFalse(cell) == cell = "str_False"

\* dnf_mask, then dropna(subset=['winnerId', 'loserId']).
ToRate(row) ==
    /\ EqFalse(row.dnf) \/ EqStrFalse(row.dnf)
    /\ row.winnerId # NaN
    /\ row.loserId # NaN

\* matches_to_rate_df of a match list under a sort order.
MatchesToRate(df, order) == SelectSeq(Reindex(df, order), ToRate)

\* ------------------------------------------------------ one match of the loop

\* Mutant of ResultValues: the tag 'away' is read as a win of the competitor
\* in the loser column.
ResultValuesAwayLoses(row) ==
    IF row.Winner = "tie" THEN <<Scale \div 2, Scale \div 2>>
    ELSE IF row.Winner = "away" THEN <<0, Scale>>
    ELSE <<Scale, 0>>

\* The result values of the two update_player calls: <<winner's, loser's>>.
ResultValues(row) ==
    IF row.Winner = "tie" THEN <<Scale \div 2, Scale \div 2>> ELSE <<Scale, 0>>

\* The try block runs to its end for this row: both ids are keys of the cache
\* (no KeyError) and the eventId cell converts to the int column.
Rates(cache, row) ==
    /\ row.winnerId \in DOMAIN cache
    /\ row.loserId \in DOMAIN cache
    /\ row.eventId # NaN

\* winner_obj.update_player([loser_obj.rating], [loser_obj.rd], [result]): the
\* winner's object is updated in place from what loser_obj.rating and
\* loser_obj.rd return when the call is made.
WinnerUpdate(cache, row) ==
    [cache EXCEPT ![row.winnerId].glicko_obj =
        update_player[cache[row.winnerId].glicko_obj,
                      getRating[cache[row.loserId].glicko_obj],
                      getRd[cache[row.loserId].glicko_obj],
                      ResultValues(row)[1]]]

\* loser_obj.update_player([winner_obj.rating], [winner_obj.rd], [result]): the
\* statement after the winner's update, on the cache that update left.
LoserUpdate(cache, row) ==
    [cache EXCEPT ![row.loserId].glicko_obj =
        update_player[cache[row.loserId].glicko_obj,
                      getRating[cache[row.winnerId].glicko_obj],
                      getRd[cache[row.winnerId].glicko_obj],
                      ResultValues(row)[2]]]

\* winner_cache_entry['match_count'] += 1, then the loser's.
CountWinner(cache, row) == [cache EXCEPT ![row.winnerId].match_count = @ + 1]

CountLoser(cache, row) == [cache EXCEPT ![row.loserId].match_count = @ + 1]

\* Mutant of RatedCache: as in a rating period, every competitor who did not
\* play the row has did_not_compete() applied (phi grows by the volatility).
RatedCacheDecayIdle(cache, row) ==
    [id \in DOMAIN cache |->
        IF id \in {row.winnerId, row.loserId}
        THEN CountLoser(CountWinner(
                 LoserUpdate(WinnerUpdate(cache, row), row), row), row)[id]
        ELSE [cache[id] EXCEPT !.glicko_obj.phi =
                 SqrtS[MulS[@, @] + MulS[cache[id].glicko_obj.vol,
                                         cache[id].glicko_obj.vol]]]]

\* Mutant of RatedCache: only the competitor in the winner column is updated
\* and counted.
RatedCacheWinnerOnly(cache, row) == CountWinner(WinnerUpdate(cache, row), row)

\* The cache after the try block of a rated row: the two updates in program
\* order, then the two increments.
RatedCache(cache, row) ==
    CountLoser(CountWinner(LoserUpdate(WinnerUpdate(cache, row), row), row), row)

\* The arguments the two update_player calls of a row are given: the winner's
\* call reads the cache before the row, the loser's the cache `mid` that the
\* winner's call left.
UpdateCallOf(cache, mid, row) ==
    [documentCode |-> row.documentCode,
     winner_opp_rating |-> getRating[cache[row.loserId].glicko_obj],
     winner_opp_rd |-> getRd[cache[row.loserId].glicko_obj],
     winner_outcome |-> ResultValues(row)[1],
     loser_opp_rating |-> getRating[mid[row.winnerId].glicko_obj],
     loser_opp_rd |-> getRd[mid[row.winnerId].glicko_obj],
     loser_outcome |-> ResultValues(row)[2]]

UpdateCall(cache, row) == UpdateCallOf(cache, WinnerUpdate(cache, row), row)

\* expected_win_chance = 1 / (1 + 10 ^ (rating_difference / 400)), the
\* difference in thousandths of a point (ln 10 / 400 is 0.0057565 a point).
ExpectedWinChance[winner_rating_pre \in Int, loser_rating_pre \in Int] ==
    Logistic[-MulS[loser_rating_pre - winner_rating_pre, 57565]]

\* The cells written at index i for a rated row: w and l are the two objects
\* before the updates, w1 and l1 the two cache entries after them.
HistoryCells(row, w, l, w1, l1) ==
    [eventId |-> row.eventId,
     documentCode |-> row.documentCode,
     matchDate |-> row.matchDate,
     winnerId |-> row.winnerId,
     loserId |-> row.loserId,
     Winner |-> row.Winner,
     winner_rating_pre |-> getRating[w],
     winner_rd_pre |-> getRd[w],
     winner_vol_pre |-> w.vol,
     loser_rating_pre |-> getRating[l],
     loser_rd_pre |-> getRd[l],
     loser_vol_pre |-> l.vol,
     winner_rating_post |-> getRating[w1.glicko_obj],
     loser_rating_post |-> getRating[l1.glicko_obj],
     winner_rd_post |-> getRd[w1.glicko_obj],
     loser_rd_post |-> getRd[l1.glicko_obj],
     winner_rating_delta |-> getRating[w1.glicko_obj] - getRating[w],
     loser_rating_delta |-> getRating[l1.glicko_obj] - getRating[l],
     rating_difference_pre |-> getRating[w] - getRating[l],
     expected_outcome |-> ExpectedWinChance[getRating[w], getRating[l]],
     winner_matches_played |-> w1.match_count,
     loser_matches_played |-> l1.match_count]

\* Mutant of HistoryRowOf: expected_outcome is computed after the updates,
\* from the two post-match ratings.
HistoryRowOfExpectedPost(cache, post, row) ==
    [HistoryCells(row, cache[row.winnerId].glicko_obj,
                  cache[row.loserId].glicko_obj,
                  post[row.winnerId], post[row.loserId])
        EXCEPT !.expected_outcome =
            ExpectedWinChance[getRating[post[row.winnerId].glicko_obj],
                              getRating[post[row.loserId].glicko_obj]]]

HistoryRowOf(cache, post, row) ==
    HistoryCells(row, cache[row.winnerId].glicko_obj,
                 cache[row.loserId].glicko_obj,
                 post[row.winnerId], post[row.loserId])

HistoryRow(cache, row) == HistoryRowOf(cache, RatedCache(cache, row), row)

\* A row of np.empty columns no cell of which was written.
EmptyRow ==
    [eventId |-> 0, documentCode |-> 0, matchDate |-> 0, winnerId |-> 0,
     loserId |-> 0, Winner |-> "", winner_rating_pre |-> 0, winner_rd_pre |-> 0,
     winner_vol_pre |-> 0, loser_rating_pre |-> 0, loser_rd_pre |-> 0,
     loser_vol_pre |-> 0, winner_rating_post |-> 0, loser_rating_post |-> 0,
     winner_rd_post |-> 0, loser_rd_post |-> 0, winner_rating_delta |-> 0,
     loser_rating_delta |-> 0, rating_difference_pre |-> 0,
     expected_outcome |-> 0, winner_matches_played |-> 0,
     loser_matches_played |-> 0]

\* Mutant of SkippedRow: the except clause writes the document code and
\* leaves winner_rating_pre as np.empty made it.
SkippedRowUnmarked(row) == [EmptyRow EXCEPT !.documentCode = row.documentCode]

\* The cells an except clause writes: the document code, and nan in
\* winner_rating_pre.
SkippedRow(row) ==
    [EmptyRow EXCEPT !.documentCode = row.documentCode,
                     !.winner_rating_pre = NaN]

\* DataFrame.round(2) on the float columns: the external-scale cells to
\* hundredths of a point, the Glicko-scale cells to two decimals.
RoundRow(h) ==
    [h EXCEPT !.winner_rating_pre = RoundDiv[@, 10],
              !.winner_rd_pre = RoundDiv[@, 10],
              !.winner_vol_pre = RoundDiv[@, 1000],
              !.loser_rating_pre = RoundDiv[@, 10],
              !.loser_rd_pre = RoundDiv[@, 10],
              !.loser_vol_pre = RoundDiv[@, 1000],
              !.winner_rating_post = RoundDiv[@, 10],
              !.loser_rating_post = RoundDiv[@, 10],
              !.winner_rd_post = RoundDiv[@, 10],
              !.loser_rd_post = RoundDiv[@, 10],
              !.winner_rating_delta = RoundDiv[@, 10],
              !.loser_rating_delta = RoundDiv[@, 10],
              !.rating_difference_pre = RoundDiv[@, 10],
              !.expected_outcome = RoundDiv[@, 1000]]

NotNaN(h) == h.winner_rating_pre # NaN

\* pd.DataFrame(ratings_history).dropna(subset=['winner_rating_pre']), rounded.
RoundRows(kept) == [k \in 1..Len(kept) |-> RoundRow(kept[k])]

\* Mutant of ResultsOf: the table is returned without the dropna.
ResultsKeepAll(history) == RoundRows(history)

ResultsOf(history) == RoundRows(SelectSeq(history, NotNaN))

\* ---------------------------------------------------------------- actions

\* The longest match list, and the number of calls, the model explores.
MaxMatches == 2

MaxRuns == 2

\* The player cache as built from the roster: one default object and a zero
\* match count per playerId.
InitialCache(roster) ==
    [id \in {roster[k] : k \in 1..Len(roster)} |->
        [glicko_obj |-> NewPlayer, match_count |-> 0]]

\* A line written by print: its text, and the document code of the match it
\* names (0 when it names none).
PrintLine(text, doc) == [text |-> text, documentCode |-> doc]

\* The lines printed before the loop.
StartLines ==
    <<PrintLine("Commencing Glicko-2 Rating Calculation", 0),
      PrintLine("Initializing player rating cache...", 0),
      PrintLine("Cache initialized", 0),
      PrintLine("matches to rate out of total matches", 0)>>

\* Mutant of Start: the cache is built once and kept between calls.
StartKeepsCache ==
    /\ pc = "start"
    /\ player_cache' =
          IF run = 1 THEN InitialCache(players_df) ELSE player_cache
    /\ matches_to_rate_df' = MatchesToRate(matches_df, argsort)
    /\ ratings_history' =
          [k \in 1..Len(MatchesToRate(matches_df, argsort)) |-> EmptyRow]
    /\ update_calls' = <<>>
    /\ i' = 0
    /\ results_df' = <<>>
    /\ printed' = StartLines
    /\ pc' = "loop"
    /\ UNCHANGED <<utils_vars, players_df, matches_df, argsort, run, prev_results>>

\* Mutant of Start: the match list is sorted in place, as by
\* sort_values('matchDate', inplace=True).
StartSortsInPlace ==
    /\ pc = "start"
    /\ player_cache' = InitialCache(players_df)
    /\ matches_df' = Reindex(matches_df, argsort)
    /\ matches_to_rate_df' = MatchesToRate(matches_df, argsort)
    /\ ratings_history' =
          [k \in 1..Len(MatchesToRate(matches_df, argsort)) |-> EmptyRow]
    /\ update_calls' = <<>>
    /\ i' = 0
    /\ results_df' = <<>>
    /\ printed' = StartLines
    /\ pc' = "loop"
    /\ UNCHANGED <<utils_vars, players_df, argsort, run, prev_results>>

\* The call up to the loop: the cache, the sorted and filtered match list, the
\* pre-allocated columns.
Start ==
    /\ pc = "start"
    /\ player_cache' = InitialCache(players_df)
    /\ matches_to_rate_df' = MatchesToRate(matches_df, argsort)
    /\ ratings_history' =
          [k \in 1..Len(MatchesToRate(matches_df, argsort)) |-> EmptyRow]
    /\ update_calls' = <<>>
    /\ i' = 0
    /\ results_df' = <<>>
    /\ printed' = StartLines
    /\ pc' = "loop"
    /\ UNCHANGED <<utils_vars, players_df, matches_df, argsort, run, prev_results>>

\* Mutant of RateMatch: the cells are written at index i - 1, the index of
\* the row before, once the loop is past its first row.
RateMatchWritesRowBefore ==
    /\ pc = "loop"
    /\ i < Len(matches_to_rate_df)
    /\ LET row == matches_to_rate_df[i + 1]
       IN /\ Rates(player_cache, row)
          /\ ratings_history' =
                [ratings_history EXCEPT
                    ![IF i = 0 THEN 1 ELSE i] = HistoryRow(player_cache, row)]
          /\ update_calls' = Append(update_calls, UpdateCall(player_cache, row))
          /\ player_cache' = RatedCache(player_cache, row)
    /\ i' = i + 1
    /\ UNCHANGED <<utils_vars, players_df, matches_df, argsort, pc, matches_to_rate_df,
                   results_df, run, prev_results, printed>>

\* One iteration whose try block runs to its end.
RateMatch ==
    /\ pc = "loop"
    /\ i < Len(matches_to_rate_df)
    /\ LET row == matches_to_rate_df[i + 1]
       IN /\ Rates(player_cache, row)
          /\ ratings_history' =
                [ratings_history EXCEPT ![i + 1] = HistoryRow(player_cache, row)]
          /\ update_calls' = Append(update_calls, UpdateCall(player_cache, row))
          /\ player_cache' = RatedCache(player_cache, row)
    /\ i' = i + 1
    /\ UNCHANGED <<utils_vars, players_df, matches_df, argsort, pc, matches_to_rate_df,
                   results_df, run, prev_results, printed>>

\* Mutant of SkipKeyError: the KeyError is not caught and ends the call.
SkipKeyErrorRaises ==
    /\ pc = "loop"
    /\ i < Len(matches_to_rate_df)
    /\ LET row == matches_to_rate_df[i + 1]
       IN \/ row.winnerId \notin DOMAIN player_cache
          \/ row.loserId \notin DOMAIN player_cache
    /\ pc' = "raised"
    /\ UNCHANGED <<utils_vars, players_df, matches_df, argsort, player_cache,
                   matches_to_rate_df, i, ratings_history, update_calls,
                   results_df, run, prev_results, printed>>

\* Mutant of SkipKeyError: the participant that has a cache entry is counted
\* before the other one's lookup raises.
SkipKeyErrorCountsKnown ==
    /\ pc = "loop"
    /\ i < Len(matches_to_rate_df)
    /\ LET row == matches_to_rate_df[i + 1]
       IN /\ row.winnerId \notin DOMAIN player_cache
             \/ row.loserId \notin DOMAIN player_cache
          /\ ratings_history' =
                [ratings_history EXCEPT ![i + 1] = SkippedRow(row)]
          /\ player_cache' =
                [id \in DOMAIN player_cache |->
                    IF id \in {row.winnerId, row.loserId}
                    THEN [player_cache[id] EXCEPT !.match_count = @ + 1]
                    ELSE player_cache[id]]
    /\ i' = i + 1
    /\ UNCHANGED <<utils_vars, players_df, matches_df, argsort, pc, matches_to_rate_df,
                   update_calls, results_df, run, prev_results, printed>>

\* Mutant of SkipKeyError: an id that is no key of the cache is given a
\* default entry before the row is skipped.
SkipKeyErrorAddsPlayer ==
    /\ pc = "loop"
    /\ i < Len(matches_to_rate_df)
    /\ LET row == matches_to_rate_df[i + 1]
       IN /\ row.winnerId \notin DOMAIN player_cache
             \/ row.loserId \notin DOMAIN player_cache
          /\ ratings_history' =
                [ratings_history EXCEPT ![i + 1] = SkippedRow(row)]
          /\ player_cache' =
                [id \in DOMAIN player_cache \cup {row.winnerId, row.loserId} |->
                    IF id \in DOMAIN player_cache THEN player_cache[id]
                    ELSE [glicko_obj |-> NewPlayer, match_count |-> 0]]
    /\ i' = i + 1
    /\ UNCHANGED <<utils_vars, players_df, matches_df, argsort, pc, matches_to_rate_df,
                   update_calls, results_df, run, prev_results, printed>>

\* Mutant of SkipKeyError: the except clause writes nan to the whole
\* winner_rating_pre column instead of to its cell at index i.
SkipKeyErrorMarksAll ==
    /\ pc = "loop"
    /\ i < Len(matches_to_rate_df)
    /\ LET row == matches_to_rate_df[i + 1]
       IN /\ row.winnerId \notin DOMAIN player_cache
             \/ row.loserId \notin DOMAIN player_cache
          /\ ratings_history' =
                [k \in 1..Len(ratings_history) |->
                    IF k = i + 1 THEN SkippedRow(row)
                    ELSE [ratings_history[k] EXCEPT !.winner_rating_pre = NaN]]
    /\ i' = i + 1
    /\ UNCHANGED <<utils_vars, players_df, matches_df, argsort, pc, player_cache,
                   matches_to_rate_df, update_calls, results_df, run,
                   prev_results, printed>>

\* One iteration that ends in `except KeyError`: an id is no key of the cache.
\* The clause prints nothing: its print call is a comment.
SkipKeyError ==
    /\ pc = "loop"
    /\ i < Len(matches_to_rate_df)
    /\ LET row == matches_to_rate_df[i + 1]
       IN /\ row.winnerId \notin DOMAIN player_cache
             \/ row.loserId \notin DOMAIN player_cache
          /\ ratings_history' =
                [ratings_history EXCEPT ![i + 1] = SkippedRow(row)]
    /\ i' = i + 1
    /\ UNCHANGED <<utils_vars, players_df, matches_df, argsort, pc, player_cache,
                   matches_to_rate_df, update_calls, results_df, run,
                   prev_results, printed>>

\* One iteration that ends in `except Exception`: both ids are known and the
\* first cell written, eventId, does not convert to the int column. The clause
\* prints nothing: its print call is a comment.
SkipException ==
    /\ pc = "loop"
    /\ i < Len(matches_to_rate_df)
    /\ LET row == matches_to_rate_df[i + 1]
       IN /\ row.winnerId \in DOMAIN player_cache
          /\ row.loserId \in DOMAIN player_cache
          /\ row.eventId = NaN
          /\ ratings_history' =
                [ratings_history EXCEPT ![i + 1] = SkippedRow(row)]
    /\ i' = i + 1
    /\ UNCHANGED <<utils_vars, players_df, matches_df, argsort, pc, player_cache,
                   matches_to_rate_df, update_calls, results_df, run,
                   prev_results, printed>>

\* After the loop: the table is built, its nan rows dropped, its floats
\* rounded, and returned.
Finish ==
    /\ pc = "loop"
    /\ i = Len(matches_to_rate_df)
    /\ results_df' = ResultsOf(ratings_history)
    /\ printed' = Append(printed, PrintLine("Glicko-2 Calculation Complete", 0))
    /\ pc' = "done"
    /\ UNCHANGED <<utils_vars, players_df, matches_df, argsort, player_cache,
                   matches_to_rate_df, i, ratings_history, update_calls, run,
                   prev_results>>

\* The caller keeps the returned table and calls again with the same roster
\* and match list.
CallAgain ==
    /\ pc = "done"
    /\ run < MaxRuns
    /\ prev_results' = results_df
    /\ run' = run + 1
    /\ pc' = "start"
    /\ UNCHANGED <<utils_vars, players_df, matches_df, argsort, player_cache,
                   matches_to_rate_df, i, ratings_history, update_calls,
                   results_df, printed>>

Next ==
    \/ Start
    \/ RateMatch
    \/ SkipKeyError
    \/ SkipException
    \/ Finish
    \/ CallAgain

\* ----------------------------------------------------------------- inputs

\* What a row of the match list is drawn from: ids, dnf cell, outcome tag and
\* eventId cell.
Kind(w, l, dnf, outcome, ev) ==
    [w |-> w, l |-> l, dnf |-> dnf, outcome |-> outcome, ev |-> ev]

\* Rows that end in an except clause: an id outside the roster as loser or as
\* winner, and a missing eventId.
SkipKinds ==
    {Kind(1, UnknownId, "bool_False", "home", 1),
     Kind(UnknownId, 2, "bool_False", "home", 1),
     Kind(1, 2, "bool_False", "home", NaN)}

\* Completed matches between any two roster ids (an id may meet itself), won
\* or tied.
RatedKinds ==
    {Kind(w, l, "bool_False", o, 1) :
        w \in PlayerIds, l \in PlayerIds, o \in {"home", "tie"}}

\* The state before the first call, the inputs aside.
LocalsInit ==
    /\ pc = "start"
    /\ player_cache = <<>>
    /\ matches_to_rate_df = <<>>
    /\ i = 0
    /\ ratings_history = <<>>
    /\ update_calls = <<>>
    /\ results_df = <<>>
    /\ run = 1
    /\ prev_results = <<>>
    /\ printed = <<>>
    /\ UtilsIdle

\* A match list of up to MaxMatches rows of the given kinds, dated by the
\* given function of (position, choice), with the roster given.
InputsInit(roster, kinds, dates) ==
    /\ players_df = roster
    /\ \E n \in 0..MaxMatches :
          \E f \in [1..n -> kinds], d \in [1..n -> dates] :
              matches_df =
                  [k \in 1..n |->
                      MatchRow(k, IF d[k] = 0 THEN k ELSE d[k], f[k].w, f[k].l,
                               f[k].dnf, f[k].outcome, f[k].ev)]
    /\ argsort \in SortOrders(matches_df)

\* Match lists already in date order (the date of a row is its position).
Init ==
    /\ InputsInit(<<1, 2, 3>>, RatedKinds \cup SkipKinds, {0})
    /\ LocalsInit

Spec == Init /\ [][Next]_vars

\* Match lists that mix rated rows with rows that end in an except clause.
ProgressKinds ==
    {Kind(1, 2, "bool_False", "home", 1), Kind(2, 3, "bool_False", "tie", 1)}
    \cup SkipKinds

InitProgress ==
    /\ InputsInit(<<1, 2, 3>>, ProgressKinds, {0})
    /\ LocalsInit

\* The loop is a for loop over a finite table: every iteration, and the
\* return, is eventually taken.
FairSpec == InitProgress /\ [][Next]_vars /\ WF_vars(Next)

\* Match lists whose rows differ in the dnf cell and in missing ids.
FilterKinds ==
    {Kind(1, 2, d, "home", 1) : d \in DnfValues}
    \cup {Kind(NaN, 2, "bool_False", "home", 1),
          Kind(1, NaN, "str_False", "home", 1),
          Kind(NaN, NaN, "bool_True", "home", 1)}
    \cup SkipKinds

InitFilter ==
    /\ InputsInit(<<1, 2, 3>>, FilterKinds, {0})
    /\ LocalsInit

SpecFilter == InitFilter /\ [][Next]_vars

\* Match lists in any date order, dates repeating.
MaxDate == 2

OrderKinds ==
    {Kind(1, 2, "bool_False", "home", 1), Kind(2, 3, "bool_False", "home", 1),
     Kind(2, 1, "bool_False", "tie", 1)}
    \cup SkipKinds

InitOrder ==
    /\ InputsInit(<<1, 2, 3>>, OrderKinds, 1..MaxDate)
    /\ LocalsInit

SpecOrder == InitOrder /\ [][Next]_vars

\* Match lists over a roster of four, so that two matches can have no
\* participant in common.
CommuteKinds ==
    {Kind(pr[1], pr[2], "bool_False", "home", 1) :
        pr \in {q \in (1..4) \X (1..4) : q[1] # q[2]}}
    \cup {Kind(1, 2, "bool_False", "tie", 1), Kind(3, 4, "bool_False", "tie", 1)}
    \cup SkipKinds

InitCommute ==
    /\ InputsInit(<<1, 2, 3, 4>>, CommuteKinds, {0})
    /\ LocalsInit

SpecCommute == InitCommute /\ [][Next]_vars

\* ------------------------------------------------------- views of the state

\* The call is in or past its loop: the locals are those of the current call.
InCall == pc \in {"loop", "done"}

\* The index in matches_to_rate_df of the input row with document code m, 0
\* when the row was filtered out.
PosToRate(m) ==
    IF \E k \in 1..Len(matches_to_rate_df) : matches_to_rate_df[k].documentCode = m
    THEN CHOOSE k \in 1..Len(matches_to_rate_df) :
            matches_to_rate_df[k].documentCode = m
    ELSE 0

\* The replayer state of input row m: filtered out or marked nan is skipped,
\* written is recorded, not yet reached is pending.
Status(m) ==
    IF pc = "start" THEN "pending"
    ELSE IF PosToRate(m) = 0 THEN "skipped"
    ELSE IF PosToRate(m) > i THEN "pending"
    ELSE IF NotNaN(ratings_history[PosToRate(m)]) THEN "recorded"
    ELSE "skipped"

\* The processed rows of the current call that were rated.
RatedIdx == {k \in 1..i : NotNaN(ratings_history[k])}

\* A processed row one of whose ids has no cache entry.
UnknownIdx ==
    {k \in 1..i :
        \/ matches_to_rate_df[k].winnerId \notin DOMAIN player_cache
        \/ matches_to_rate_df[k].loserId \notin DOMAIN player_cache}

\* ------------------------------------------------------------------ claims

\* C1: for every rated match, the winner's update is given the loser's
\* pre-match (rating, deviation) and the loser's update is given the winner's
\* pre-match (rating, deviation), as the history row of that match records
\* them.
C1_OpponentInputsPreMatch ==
    InCall =>
        \A c \in 1..Len(update_calls) :
            \A k \in RatedIdx :
                ratings_history[k].documentCode = update_calls[c].documentCode =>
                    /\ update_calls[c].winner_opp_rating = ratings_history[k].loser_rating_pre
                    /\ update_calls[c].winner_opp_rd = ratings_history[k].loser_rd_pre
                    /\ update_calls[c].loser_opp_rating = ratings_history[k].winner_rating_pre
                    /\ update_calls[c].loser_opp_rd = ratings_history[k].winner_rd_pre

\* The row just processed is a tie between two distinct competitors who both
\* held the default state.
TieOfDefaults ==
    /\ pc = "loop"
    /\ i \in RatedIdx
    /\ ratings_history[i].Winner = "tie"
    /\ ratings_history[i].winnerId # ratings_history[i].loserId
    /\ ratings_history[i].winner_matches_played = 1
    /\ ratings_history[i].loser_matches_played = 1

\* C2: after a tie between two competitors who both held the default state,
\* the committed (rating, deviation, volatility) of the one listed as winner
\* equals that of the one listed as loser.
C2_TieSymmetry ==
    TieOfDefaults =>
        player_cache[ratings_history[i].winnerId].glicko_obj =
            player_cache[ratings_history[i].loserId].glicko_obj

\* The number of recorded matches of the call in which id appears.
RecordedMatchesOf(id) ==
    Cardinality({k \in RatedIdx :
        ratings_history[k].winnerId = id \/ ratings_history[k].loserId = id})

\* C3: when the replay ends, every competitor's match counter equals the
\* number of recorded matches in which it appears as winner or as loser.
C3_Conservation ==
    pc = "done" =>
        \A id \in DOMAIN player_cache :
            player_cache[id].match_count = RecordedMatchesOf(id)

\* C4: an input row enters the rating loop exactly when its dnf cell is the
\* boolean False or the string "False" and both ids are present.
C4_InclusionPredicate ==
    InCall =>
        \A m \in 1..Len(matches_df) :
            PosToRate(m) # 0 <=>
                /\ matches_df[m].dnf \in {"bool_False", "str_False"}
                /\ matches_df[m].winnerId # NaN
                /\ matches_df[m].loserId # NaN

\* C5: a row of the loop with an id that has no cache entry is marked nan and
\* has no row in the returned table, and the call never ends by raising.
C5_UnknownCompetitorSkipped ==
    /\ pc # "raised"
    /\ InCall =>
          \A k \in UnknownIdx :
              /\ ~NotNaN(ratings_history[k])
              /\ pc = "done" =>
                    \A r \in 1..Len(results_df) :
                        results_df[r].documentCode # matches_to_rate_df[k].documentCode

\* A call returned a table with a row although the loop met an unknown id.
C5_Witness ==
    /\ pc = "done"
    /\ UnknownIdx # {}
    /\ Len(results_df) > 0

\* Every input row is recorded or skipped.
AllFinal ==
    \A m \in 1..Len(matches_df) : Status(m) \in {"recorded", "skipped"}

\* C6: every call ends, and ends with the loop past its last row and every
\* match recorded or skipped, whatever rows were skipped on the way.
C6_ReplayTerminates ==
    (pc = "start") ~> (pc = "done" /\ i = Len(matches_to_rate_df) /\ AllFinal)

\* A call ended having recorded a row that follows a skipped row.
C6_Witness ==
    /\ pc = "done"
    /\ \E a, b \in 1..i :
          a < b /\ ~NotNaN(ratings_history[a]) /\ NotNaN(ratings_history[b])

\* C7: the rows are processed one at a time in the order of
\* matches_to_rate_df, and that order is ascending in matchDate.
C7_ChronologicalReplay ==
    InCall =>
        /\ \A a, b \in 1..Len(matches_to_rate_df) :
              a < b => matches_to_rate_df[a].matchDate <= matches_to_rate_df[b].matchDate
        /\ \A k \in 1..Len(ratings_history) :
              IF k <= i
              THEN ratings_history[k].documentCode = matches_to_rate_df[k].documentCode
              ELSE ratings_history[k] = EmptyRow

\* A call recorded two matches that the input lists against their dates.
C7_Witness ==
    /\ pc = "done"
    /\ \E a, b \in RatedIdx :
          /\ a < b
          /\ ratings_history[a].documentCode > ratings_history[b].documentCode
          /\ ratings_history[a].matchDate < ratings_history[b].matchDate

\* C8: two rows of equal matchDate are processed in their input order.
C8_StableTieBreak ==
    InCall =>
        \A a, b \in 1..Len(matches_to_rate_df) :
            (a < b /\ matches_to_rate_df[a].matchDate = matches_to_rate_df[b].matchDate)
                => matches_to_rate_df[a].documentCode < matches_to_rate_df[b].documentCode

StepCache(cache, row) ==
    IF Rates(cache, row) THEN RatedCache(cache, row) ELSE cache

RECURSIVE ReplayCache(_, _, _)
\* The cache after rows k.. of a list, from a given cache.
ReplayCache(cache, rows, k) ==
    IF k > Len(rows) THEN cache
    ELSE ReplayCache(StepCache(cache, rows[k]), rows, k + 1)

\* rows with the rows at k and k + 1 exchanged.
SwapAdjacent(rows, k) ==
    [j \in 1..Len(rows) |->
        IF j = k THEN rows[k + 1] ELSE IF j = k + 1 THEN rows[k] ELSE rows[j]]

Disjoint(r1, r2) ==
    {r1.winnerId, r1.loserId} \cap {r2.winnerId, r2.loserId} = {}

\* C10: the cache a call ends with is the cache a replay ends with when two
\* adjacent rows with no participant in common are processed in the other
\* order.
C10_IndependentMatchesCommute ==
    pc = "done" =>
        \A k \in 1..(Len(matches_to_rate_df) - 1) :
            Disjoint(matches_to_rate_df[k], matches_to_rate_df[k + 1]) =>
                ReplayCache(InitialCache(players_df),
                            SwapAdjacent(matches_to_rate_df, k), 1) = player_cache

\* A call ended having rated two adjacent matches between four competitors.
C10_Witness ==
    /\ pc = "done"
    /\ \E k \in 1..(i - 1) :
          /\ Disjoint(matches_to_rate_df[k], matches_to_rate_df[k + 1])
          /\ k \in RatedIdx
          /\ (k + 1) \in RatedIdx
          /\ ratings_history[k].winnerId # ratings_history[k].loserId
          /\ ratings_history[k + 1].winnerId # ratings_history[k + 1].loserId

\* The rows of the returned table that carry document code m.
RowsOf(m) == {r \in 1..Len(results_df) : results_df[r].documentCode = m}

\* C11: the returned table has, in processing order, exactly one row for each
\* match whose try block ran to its end, a row with its cells written, and no
\* row for a match that was filtered out or ended in an except clause.
C11_HistoryCompleteness ==
    pc = "done" =>
        /\ Len(results_df) = Len(update_calls)
        /\ \A r \in 1..Len(results_df) :
              /\ results_df[r].documentCode = update_calls[r].documentCode
              /\ results_df[r].winner_rating_pre # NaN
              /\ results_df[r].winner_matches_played >= 1
              /\ results_df[r].loser_matches_played >= 1
        /\ \A m \in 1..Len(matches_df) :
              Cardinality(RowsOf(m)) = IF Status(m) = "recorded" THEN 1 ELSE 0

\* A call returned a table with a row, having marked another row nan.
C11_Witness ==
    /\ pc = "done"
    /\ Len(results_df) > 0
    /\ \E k \in 1..i : ~NotNaN(ratings_history[k])

\* C12: for every row of the loop that ended in an except clause, a printed
\* line names that match.
C12_SkipDiagnostic ==
    InCall =>
        \A k \in 1..i :
            ~NotNaN(ratings_history[k]) =>
                \E n \in 1..Len(printed) :
                    printed[n].documentCode = matches_to_rate_df[k].documentCode

\* The replayer state of input row m, the row the loop is at included: the
\* row at index i is the one being applied, the rows before it are recorded
\* or skipped, the rows after it pending.
ReplayState(m) ==
    IF pc = "loop" /\ PosToRate(m) = i + 1 THEN "processing" ELSE Status(m)

\* The moves of a match the replayer allows.
ReplayMoves ==
    {<<"pending", "processing">>, <<"processing", "recorded">>,
     <<"pending", "skipped">>, <<"processing", "skipped">>}

\* The input rows in state processing.
Processing == {m \in 1..Len(matches_df) : ReplayState(m) = "processing"}

\* C13: at most one match is being processed, and within a call a match
\* keeps its state or makes one of the allowed moves; recorded and skipped
\* are left by no move.
C13_ReplayerStateMachine ==
    /\ [](Cardinality(Processing) <= 1)
    /\ [][pc' # "start" =>
            \A m \in 1..Len(matches_df) :
                \/ ReplayState(m)' = ReplayState(m)
                \/ <<ReplayState(m), ReplayState(m)'>> \in ReplayMoves]_vars

\* The loop is at a row, with a match recorded before it.
C13_Witness ==
    /\ Cardinality(Processing) = 1
    /\ \E m \in 1..Len(matches_df) : ReplayState(m) = "recorded"

\* Rosters with a repeated id, and rosters that lack an id the matches name.
StoreRosters == {<<1, 2, 3>>, <<1, 1, 2>>, <<3, 2>>}

StoreKinds ==
    {Kind(1, 2, "bool_False", "home", 1), Kind(2, 3, "bool_False", "tie", 1),
     Kind(3, 1, "bool_False", "home", 1)}
    \cup SkipKinds

InitStore ==
    /\ \E roster \in StoreRosters : InputsInit(roster, StoreKinds, {0})
    /\ LocalsInit

SpecStore == InitStore /\ [][Next]_vars

\* The ids of the roster.
RosterIds == {players_df[k] : k \in 1..Len(players_df)}

\* C14: the cache holds one entry per roster id, each the default object with
\* a match count of 0 when the loop starts, and the ids that have an entry
\* stay the roster's ids whatever rows are processed.
C14_StoreInvariant ==
    InCall =>
        /\ DOMAIN player_cache = RosterIds
        /\ i = 0 =>
              \A id \in RosterIds :
                  player_cache[id] = [glicko_obj |-> NewPlayer, match_count |-> 0]

\* A call over a roster with a repeated id rated a match and skipped a row
\* that names an id outside the roster.
C14_Witness ==
    /\ pc = "done"
    /\ Cardinality(RosterIds) < Len(players_df)
    /\ RatedIdx # {}
    /\ \E k \in 1..i :
          {matches_to_rate_df[k].winnerId, matches_to_rate_df[k].loserId}
              \ RosterIds # {}

\* The three matches of the scenario, A, B, C being the ids 1, 2, 3: A beats
\* B on day 1, B beats C on day 2, A beats C on day 3.
ScenarioRows ==
    <<MatchRow(1, 1, 1, 2, "bool_False", "home", 1),
      MatchRow(2, 2, 2, 3, "bool_False", "home", 1),
      MatchRow(3, 3, 1, 3, "bool_False", "home", 1)>>

\* The number of rows that are not rated which a scenario list may also hold.
MaxExtra == 1

\* Rows that are not rated: the rows that end in an except clause, and an
\* unfinished match.
ExtraKinds == SkipKinds \cup {Kind(1, 2, "bool_True", "home", 1)}

\* The scenario's match list, alone or followed by rows that are not rated,
\* dated on any of the three days.
InitScenario ==
    /\ players_df = <<1, 2, 3>>
    /\ \E n \in 0..MaxExtra :
          \E f \in [1..n -> ExtraKinds], d \in [1..n -> 1..3] :
              matches_df =
                  ScenarioRows \o
                  [k \in 1..n |->
                      MatchRow(3 + k, d[k], f[k].w, f[k].l, f[k].dnf,
                               f[k].outcome, f[k].ev)]
    /\ argsort \in SortOrders(matches_df)
    /\ LocalsInit

SpecScenario == InitScenario /\ [][Next]_vars

\* C15: the replay of the scenario returns 3 history rows, leaves A rated
\* above the default and C below it, and counts 2 matches for each of A, B, C.
C15_Scenario ==
    pc = "done" =>
        /\ Len(results_df) = 3
        /\ getRating[player_cache[1].glicko_obj] > DefaultRating
        /\ getRating[player_cache[3].glicko_obj] < DefaultRating
        /\ \A id \in {1, 2, 3} : player_cache[id].match_count = 2

\* The replay of the scenario's three matches alone has ended.
C15_Witness ==
    /\ pc = "done"
    /\ matches_df = ScenarioRows
    /\ Len(results_df) = 3

\* The outcome tags of a row: 'home', 'away', 'tie', and none (the cell is
\* missing).
OutcomeTags == {"home", "away", "tie", "none"}

OutcomeKinds ==
    {Kind(1, 2, "bool_False", o, 1) : o \in OutcomeTags}
    \cup {Kind(3, 1, "str_False", o, 1) : o \in OutcomeTags}
    \cup SkipKinds

InitOutcome ==
    /\ InputsInit(<<1, 2, 3>>, OutcomeKinds, {0})
    /\ LocalsInit

SpecOutcome == InitOutcome /\ [][Next]_vars

\* C16: the two update_player calls of a rated match are given 0.5 and 0.5
\* when the match's outcome tag is 'tie', and 1.0 for the winner column and
\* 0.0 for the loser column for every other tag, a missing one included; with
\* 1.0 and 0.0 the winner column's rating rises and the loser column's falls.
C16_ResultValues ==
    InCall =>
        \A c \in 1..Len(update_calls) :
            \A k \in RatedIdx :
                ratings_history[k].documentCode = update_calls[c].documentCode =>
                    IF matches_df[update_calls[c].documentCode].Winner = "tie"
                    THEN /\ update_calls[c].winner_outcome = Scale \div 2
                         /\ update_calls[c].loser_outcome = Scale \div 2
                    ELSE /\ update_calls[c].winner_outcome = Scale
                         /\ update_calls[c].loser_outcome = 0
                         /\ ratings_history[k].winner_rating_post >
                                ratings_history[k].winner_rating_pre
                         /\ ratings_history[k].loser_rating_post <
                                ratings_history[k].loser_rating_pre

\* A call rated a match tagged 'away' and a match with no tag.
C16_Witness ==
    /\ pc = "done"
    /\ \E k \in RatedIdx : ratings_history[k].Winner = "away"
    /\ \E k \in RatedIdx : ratings_history[k].Winner = "none"

\* The rated rows before row k in which id appears.
EarlierOf(k, id) ==
    {j \in RatedIdx :
        j < k /\ id \in {ratings_history[j].winnerId, ratings_history[j].loserId}}

\* The rating id held when row k was reached: the default when no earlier
\* rated row names id, else the post-match rating of the latest such row.
RatingBefore(k, id) ==
    IF EarlierOf(k, id) = {} THEN DefaultRating
    ELSE LET j == CHOOSE x \in EarlierOf(k, id) :
                      \A y \in EarlierOf(k, id) : y <= x
         IN IF ratings_history[j].loserId = id
            THEN ratings_history[j].loser_rating_post
            ELSE ratings_history[j].winner_rating_post

MaxHistory == 31

\* Row k of a history in which 1 and 2 win in turn.
TurnRow(k) ==
    IF k % 2 = 1 THEN MatchRow(k, k, 1, 2, "bool_False", "home", 1)
    ELSE MatchRow(k, k, 2, 1, "bool_False", "home", 1)

\* The last row: a match of 1 against 3, who has not played, or a row that
\* ends in an except clause.
LastKinds ==
    {Kind(1, 3, "bool_False", "home", 1), Kind(3, 1, "bool_False", "home", 1)}
    \cup SkipKinds

\* Long match lists in date order: n rows in which 1 and 2 win in turn, then
\* one last row.
InitHistory ==
    /\ players_df = <<1, 2, 3>>
    /\ \E n \in (MaxHistory - 1)..MaxHistory :
          \E f \in LastKinds :
              matches_df =
                  [k \in 1..(n + 1) |->
                      IF k <= n THEN TurnRow(k)
                      ELSE MatchRow(k, k, f.w, f.l, f.dnf, f.outcome, f.ev)]
    /\ argsort = [k \in 1..Len(matches_df) |-> k]
    /\ LocalsInit

SpecHistory == InitHistory /\ [][Next]_vars

\* C18: in every rated row, each competitor's deviation after the match is
\* at most its deviation before the match.
C18_DeviationNeverIncreases ==
    InCall =>
        \A k \in RatedIdx :
            /\ ratings_history[k].winner_rd_post <= ratings_history[k].winner_rd_pre
            /\ ratings_history[k].loser_rd_post <= ratings_history[k].loser_rd_pre

\* The competitors that appear in a ratings-history table.
HistoryIds(history) ==
    {history[r].winnerId : r \in 1..Len(history)}
    \cup {history[r].loserId : r \in 1..Len(history)}

\* The rows of a table in which id appears.
RowsWith(history, id) ==
    {r \in 1..Len(history) : id \in {history[r].winnerId, history[r].loserId}}

\* The row of id's most recent match: the maximum matchDate, the
\* last-occurring row when dates tie.
LastRowOf(history, id) ==
    CHOOSE r \in RowsWith(history, id) :
        \A q \in RowsWith(history, id) :
            \/ history[q].matchDate < history[r].matchDate
            \/ history[q].matchDate = history[r].matchDate /\ q <= r

\* What a history row holds for id: the post-match rating and deviation, the
\* volatility column of the row, and the running match count.
StatsIn(h, id) ==
    IF h.winnerId = id
    THEN [rating |-> h.winner_rating_post, rd |-> h.winner_rd_post,
          vol |-> h.winner_vol_pre, matches_played |-> h.winner_matches_played]
    ELSE [rating |-> h.loser_rating_post, rd |-> h.loser_rd_post,
          vol |-> h.loser_vol_pre, matches_played |-> h.loser_matches_played]

\* The summary reducer: one row per competitor of the history, taken from the
\* row of their most recent match.
get_final_player_stats(history) ==
    [id \in HistoryIds(history) |-> StatsIn(history[LastRowOf(history, id)], id)]

\* What the cache holds for id, in the units of the returned table
\* (thousandths of a point against hundredths, and so on).
StoreMatches(stats, entry) ==
    /\ stats.rating * 10 = getRating[entry.glicko_obj]
    /\ stats.rd * 10 = getRd[entry.glicko_obj]
    /\ stats.vol * 1000 = entry.glicko_obj.vol
    /\ stats.matches_played = entry.match_count

\* C19: the summary of the returned table has one row per competitor of the
\* history, and that row equals the state the cache holds for the competitor
\* when the call ends.
C19_SummaryReduction ==
    pc = "done" =>
        /\ DOMAIN get_final_player_stats(results_df) = HistoryIds(results_df)
        /\ \A id \in HistoryIds(results_df) :
              StoreMatches(get_final_player_stats(results_df)[id], player_cache[id])

\* The step is an iteration of the loop that rated its row.
RatedStep ==
    /\ pc = "loop"
    /\ i' = i + 1
    /\ NotNaN(ratings_history'[i'])

\* The participants of the row the loop is at.
RowIds == {matches_to_rate_df[i + 1].winnerId, matches_to_rate_df[i + 1].loserId}

\* C20: an iteration that rates its row adds exactly one to the match count
\* of each competitor of the row, also when one id fills both columns, and
\* leaves the cache entry of every other competitor as it was.
C20_StepEffect ==
    [][RatedStep =>
          \A id \in DOMAIN player_cache :
              IF id \in RowIds
              THEN player_cache'[id].match_count = player_cache[id].match_count + 1
              ELSE player_cache'[id] = player_cache[id]]_vars

\* The rated rows up to and including row k in which id appears.
RecordedUpTo(k, id) ==
    {j \in RatedIdx :
        j <= k /\ id \in {ratings_history[j].winnerId, ratings_history[j].loserId}}

\* C21: in every history row the two running counts are the numbers of
\* recorded matches, this one included, in which the winner and the loser have
\* appeared.
C21_RunningMatchCount ==
    InCall =>
        \A k \in RatedIdx :
            /\ ratings_history[k].winner_matches_played =
                   Cardinality(RecordedUpTo(k, ratings_history[k].winnerId))
            /\ ratings_history[k].loser_matches_played =
                   Cardinality(RecordedUpTo(k, ratings_history[k].loserId))

\* The step is an iteration of the loop over a row one of whose ids has no
\* cache entry.
UnknownStep ==
    /\ pc = "loop"
    /\ i' = i + 1
    /\ RowIds \ DOMAIN player_cache # {}

\* C22: an iteration over a row with an id that has no cache entry leaves the
\* whole cache, the entry of the row's other participant included, as it was.
C22_UnknownSkipLeavesStore ==
    [][UnknownStep => player_cache' = player_cache]_vars

\* A row was skipped for an unknown id although its other participant had
\* already played a rated match.
C22_Witness ==
    /\ InCall
    /\ \E k \in UnknownIdx :
          \E id \in {matches_to_rate_df[k].winnerId, matches_to_rate_df[k].loserId} :
              /\ id \in DOMAIN player_cache
              /\ player_cache[id].match_count > 0
              /\ \E j \in RatedIdx : j < k

\* The row an except clause leaves when the try block had written its
\* pre-match cells: those cells, and nan in winner_rating_pre.
FailedRow(cache, row) ==
    [HistoryRowOf(cache, cache, row) EXCEPT
        !.winner_rating_pre = NaN,
        !.winner_rating_post = 0, !.loser_rating_post = 0,
        !.winner_rd_post = 0, !.loser_rd_post = 0,
        !.winner_rating_delta = 0, !.loser_rating_delta = 0,
        !.winner_matches_played = 0, !.loser_matches_played = 0]

\* One iteration in which the loser's update_player call raises: the
\* winner's object has been updated in place, `except Exception` marks the row.
FailBetweenUpdates ==
    /\ pc = "loop"
    /\ i < Len(matches_to_rate_df)
    /\ LET row == matches_to_rate_df[i + 1]
       IN /\ Rates(player_cache, row)
          /\ ratings_history' =
                [ratings_history EXCEPT ![i + 1] = FailedRow(player_cache, row)]
          /\ update_calls' = Append(update_calls, UpdateCall(player_cache, row))
          /\ player_cache' = WinnerUpdate(player_cache, row)
    /\ i' = i + 1
    /\ UNCHANGED <<utils_vars, players_df, matches_df, argsort, pc, matches_to_rate_df,
                   results_df, run, prev_results, printed>>

\* One iteration in which a statement after the two updates and the two
\* increments raises: both objects and both counters have been changed,
\* `except Exception` marks the row.
FailAfterUpdates ==
    /\ pc = "loop"
    /\ i < Len(matches_to_rate_df)
    /\ LET row == matches_to_rate_df[i + 1]
       IN /\ Rates(player_cache, row)
          /\ ratings_history' =
                [ratings_history EXCEPT ![i + 1] = FailedRow(player_cache, row)]
          /\ update_calls' = Append(update_calls, UpdateCall(player_cache, row))
          /\ player_cache' = RatedCache(player_cache, row)
    /\ i' = i + 1
    /\ UNCHANGED <<utils_vars, players_df, matches_df, argsort, pc, matches_to_rate_df,
                   results_df, run, prev_results, printed>>

\* The steps of a call in which a statement of the try block may raise after
\* the first update.
NextFault ==
    \/ Next
    \/ FailBetweenUpdates
    \/ FailAfterUpdates

SpecFault == InitProgress /\ [][NextFault]_vars

\* The step is an iteration of the loop that ended in an except clause.
SkippedStep ==
    /\ pc = "loop"
    /\ i' = i + 1
    /\ ~NotNaN(ratings_history'[i'])

EarlierRows(r, id) == {q \in RowsWith(results_df, id) : q < r}

\* What the returned table holds for id before row r: the post-match rating
\* and deviation of id's preceding row, the defaults when there is none.
TableBefore(r, id) ==
    IF EarlierRows(r, id) = {}
    THEN [rating |-> RoundDiv[DefaultRating, 10], rd |-> RoundDiv[DefaultRd, 10]]
    ELSE LET q == CHOOSE x \in EarlierRows(r, id) :
                      \A y \in EarlierRows(r, id) : y <= x
         IN IF results_df[q].loserId = id
            THEN [rating |-> results_df[q].loser_rating_post,
                  rd |-> results_df[q].loser_rd_post]
            ELSE [rating |-> results_df[q].winner_rating_post,
                  rd |-> results_df[q].winner_rd_post]

\* C24: in every row of the returned table the pre-match rating and deviation
\* of each competitor are the post-match values of that competitor's preceding
\* row (the defaults in a first row), and each rating delta is the row's
\* post-match rating minus its pre-match rating.
C24_TrajectoryContinuity ==
    pc = "done" =>
        \A r \in 1..Len(results_df) :
            /\ results_df[r].winner_rating_pre =
                   TableBefore(r, results_df[r].winnerId).rating
            /\ results_df[r].winner_rd_pre =
                   TableBefore(r, results_df[r].winnerId).rd
            /\ results_df[r].loser_rating_pre =
                   TableBefore(r, results_df[r].loserId).rating
            /\ results_df[r].loser_rd_pre =
                   TableBefore(r, results_df[r].loserId).rd
            /\ results_df[r].winner_rating_delta =
                   results_df[r].winner_rating_post - results_df[r].winner_rating_pre
            /\ results_df[r].loser_rating_delta =
                   results_df[r].loser_rating_post - results_df[r].loser_rating_pre

\* C25: the row written for a match stays as it was written while the later
\* rows of the call are processed and the table is returned.
C25_RowsWriteOnce ==
    [][InCall => \A k \in 1..i : ratings_history'[k] = ratings_history[k]]_vars

\* A call rated a match after having written the row of an earlier match of
\* one of its competitors.
C25_Witness ==
    /\ InCall
    /\ \E j, k \in RatedIdx :
          /\ j < k
          /\ {ratings_history[j].winnerId, ratings_history[j].loserId}
                 \cap {ratings_history[k].winnerId, ratings_history[k].loserId} # {}

\* C26: when the loop starts the sorted and filtered list is complete and
\* stays as it is through the loop, and no step of a call changes the
\* caller's roster or match list.
C26_InputsUnchanged ==
    /\ [](InCall => matches_to_rate_df = MatchesToRate(matches_df, argsort))
    /\ [][/\ matches_df' = matches_df
          /\ players_df' = players_df
          /\ pc = "loop" => matches_to_rate_df' = matches_to_rate_df]_vars

\* A call returned a table with a row for a match list that was not in date
\* order.
C26_Witness ==
    /\ pc = "done"
    /\ argsort # [k \in 1..Len(matches_df) |-> k]
    /\ Len(results_df) > 0
    /\ Len(matches_to_rate_df) = Len(matches_df)

\* ------------------------------------------------------- utils/winrates.py

\* The state of the replayer while a utility runs.
ReplayerIdle ==
    /\ players_df = <<>>
    /\ matches_df = <<>>
    /\ argsort = <<>>
    /\ pc = "start"
    /\ player_cache = <<>>
    /\ matches_to_rate_df = <<>>
    /\ i = 0
    /\ ratings_history = <<>>
    /\ update_calls = <<>>
    /\ results_df = <<>>
    /\ run = 1
    /\ prev_results = <<>>
    /\ printed = <<>>

replayer_vars ==
    <<players_df, matches_df, argsort, pc, player_cache, matches_to_rate_df, i,
      ratings_history, update_calls, results_df, run, prev_results, printed>>

\* A row of master_matches_df, in the columns the win-rate functions read.
WinrateRow(w, l, ws, ls, wp, lp) ==
    [winnerId |-> w, loserId |-> l, winnerSets |-> ws, loserSets |-> ls,
     winnerTotalPoints |-> wp, loserTotalPoints |-> lp]

\* str.isspace(): at least one character, and every character is whitespace.
Whitespace == {" ", "\t", "\n"}

isspace(chars) ==
    /\ Len(chars) > 0
    /\ \A k \in 1..Len(chars) : chars[k] \in Whitespace

\* The types whose == compares element by element (a pandas DataFrame or
\* Series): info_string == "" is then a table of booleans, and `or` asking for
\* its truth value raises ValueError before isinstance is reached.
ArrayLike == {"DataFrame", "Series"}

GuardRaises(info_string) == info_string.type \in ArrayLike

\* The guard each function of the file opens with, when it evaluates:
\* info_string == "", or not a str, or whitespace only (an object of another
\* type does not equal "").
InvalidInfoString(info_string) ==
    \/ info_string.type = "str" /\ info_string.value = <<>>
    \/ info_string.type # "str"
    \/ isspace(info_string.value)

\* A Series indexed by id: no entries.
EmptySeries == [id \in {} |-> 0]

\* Series.value_counts(): the number of rows per value of the column, missing
\* values dropped.
RECURSIVE value_counts(_, _)
value_counts(df, col) ==
    IF df = <<>> THEN EmptySeries
    ELSE LET counts == value_counts(SubSeq(df, 1, Len(df) - 1), col)
             v == df[Len(df)][col]
         IN  IF v = NaN THEN counts
             ELSE [id \in DOMAIN counts \cup {v} |->
                      IF id # v THEN counts[id]
                      ELSE IF v \in DOMAIN counts THEN counts[v] + 1 ELSE 1]

\* df.groupby(key)[col].sum(): the column summed per key, rows with a missing
\* key dropped.
RECURSIVE GroupSum(_, _, _)
GroupSum(df, key, col) ==
    IF df = <<>> THEN EmptySeries
    ELSE LET sums == GroupSum(SubSeq(df, 1, Len(df) - 1), key, col)
             v == df[Len(df)][key]
             x == df[Len(df)][col]
         IN  IF v = NaN THEN sums
             ELSE [id \in DOMAIN sums \cup {v} |->
                      IF id # v THEN sums[id]
                      ELSE IF v \in DOMAIN sums THEN sums[v] + x ELSE x]

\* Series.add(other, fill_value=0): the sum over the union of the two indexes.
SeriesAdd(a, b) ==
    [id \in DOMAIN a \cup DOMAIN b |->
        (IF id \in DOMAIN a THEN a[id] ELSE 0)
        + (IF id \in DOMAIN b THEN b[id] ELSE 0)]

\* fillna(0).
fillna0(x) == IF x = NaN THEN 0 ELSE x

\* Mutant of ConcatColumns: an inner join, which keeps only the ids present in
\* both series.
ConcatInner(a, b) ==
    [id \in DOMAIN a \cap DOMAIN b |-> [first |-> a[id], second |-> b[id]]]

\* pd.concat([a, b], axis=1): the outer join of two series on their index, a
\* missing cell where a series has no entry.
ConcatColumns(a, b) ==
    [id \in DOMAIN a \cup DOMAIN b |->
        [first |-> IF id \in DOMAIN a THEN a[id] ELSE NaN,
         second |-> IF id \in DOMAIN b THEN b[id] ELSE NaN]]

\* (won / played * 100).fillna(0).round(2), in hundredths of a percent: 0 / 0
\* is a missing value, and round() goes to the even neighbour on a tie.
RatePercent[won \in Int, played \in Int] ==
    IF played = 0 THEN 0
    ELSE LET q == (won * 10000) \div played
             r == (won * 10000) % played
         IN  IF 2 * r > played THEN q + 1
             ELSE IF 2 * r = played THEN q + (q % 2)
             ELSE q

\* match_stats before the sort: wins, losses, total and rate per id.
MatchStats(df) ==
    LET joined == ConcatColumns(value_counts(df, "winnerId"),
                                value_counts(df, "loserId"))
    IN  [id \in DOMAIN joined |->
            LET wins == fillna0(joined[id].first)
                losses == fillna0(joined[id].second)
            IN  [playerId |-> id, TotalWins |-> wins, TotalLosses |-> losses,
                 TotalMatches |-> wins + losses,
                 WinRate |-> RatePercent[wins, wins + losses]]]

\* The orders in which the rows of a table indexed by id can be listed.
RowOrders(stats) ==
    {f \in [1..Cardinality(DOMAIN stats) -> DOMAIN stats] :
        \A a, b \in DOMAIN f : a # b => f[a] # f[b]}

\* sort_values(by=['WinRate'], ascending=False): descending by rate; rows of
\* equal rate may come out in any order.
WinRateOrders(stats) ==
    {f \in RowOrders(stats) :
        \A a, b \in DOMAIN f : a < b => stats[f[a]].WinRate >= stats[f[b]].WinRate}

\* The rows of a table indexed by id, listed in an order.
RowsIn(stats, order) == [k \in DOMAIN order |-> stats[order[k]]]

\* The set and point tables: what a player won and lost as winner and as
\* loser, the total played and the rate.
RateStats(df, wonAsWinner, wonAsLoser) ==
    LET total_won == SeriesAdd(GroupSum(df, "winnerId", wonAsWinner),
                               GroupSum(df, "loserId", wonAsLoser))
        total_lost == SeriesAdd(GroupSum(df, "winnerId", wonAsLoser),
                                GroupSum(df, "loserId", wonAsWinner))
        joined == ConcatColumns(total_won, total_lost)
    IN  [id \in DOMAIN joined |->
            LET won == fillna0(joined[id].first)
                lost == fillna0(joined[id].second)
            IN  [playerId |-> id, TotalWon |-> won, TotalLost |-> lost,
                 TotalPlayed |-> won + lost,
                 WinRate |-> RatePercent[won, won + lost]]]

\* str.upper() and str.replace(" ", "_"), per character.
UpperChar(c) == IF c = "a" THEN "A" ELSE IF c = "b" THEN "B" ELSE c

upper(chars) == [k \in 1..Len(chars) |-> UpperChar(chars[k])]

safe_label(chars) == [k \in 1..Len(chars) |-> IF chars[k] = " " THEN "_" ELSE chars[k]]

\* datetime.now().strftime("%Y%m%d"): the day of the call.
Dates == {"20250101"}

\* A file: its name and what it holds.
File(name, content) == [name |-> name, content |-> content]

\* to_csv(path): the file of that name is created or replaced.
WriteFile(files, name, content) ==
    {f \in files : f.name # name} \cup {File(name, content)}

\* The values a call is given for info_string: strings (empty, whitespace
\* only, and others) and objects that are not strings (None, a number, a
\* list, a table).
InfoStrings ==
    {Str(<<>>), Str(<<" ">>), Str(<<" ", "\t">>), Str(<<"a">>),
     Str(<<"a", " ", "b">>), Str(<<" ", "a">>),
     None, Obj("int", <<>>, <<>>), Obj("list", <<>>, <<>>),
     Obj("DataFrame", <<>>, <<>>)}

\* A call's record: the function, its info_string and what it returned.
Call(fn, info_string, value) ==
    [fn |-> fn, info_string |-> info_string, value |-> value]

compute_match_winrates ==
    /\ \E info_string \in InfoStrings :
          IF GuardRaises(info_string)
          THEN returned' = Call("compute_match_winrates", info_string, Obj("ValueError", <<>>, <<>>))
          ELSE IF InvalidInfoString(info_string)
          THEN returned' = Call("compute_match_winrates", info_string, None)
          ELSE \E order \in WinRateOrders(MatchStats(master_matches_df)) :
                  returned' =
                      Call("compute_match_winrates", info_string,
                           Obj("DataFrame",
                               RowsIn(MatchStats(master_matches_df), order),
                               info_string.value))
    /\ UNCHANGED <<replayer_vars, master_matches_df, disk, events_shortlist,
                   payloads_files, file_pos, success_ids, no_singles_ids,
                   no_data_ids, error_ids>>

compute_set_winrates ==
    /\ \E info_string \in InfoStrings :
          IF GuardRaises(info_string)
          THEN returned' = Call("compute_set_winrates", info_string, Obj("ValueError", <<>>, <<>>))
          ELSE IF InvalidInfoString(info_string)
          THEN returned' = Call("compute_set_winrates", info_string, None)
          ELSE LET set_stats == RateStats(master_matches_df, "winnerSets", "loserSets")
               IN  \E order \in RowOrders(set_stats) :
                      returned' =
                          Call("compute_set_winrates", info_string,
                               Obj("DataFrame", RowsIn(set_stats, order),
                                   info_string.value))
    /\ UNCHANGED <<replayer_vars, master_matches_df, disk, events_shortlist,
                   payloads_files, file_pos, success_ids, no_singles_ids,
                   no_data_ids, error_ids>>

compute_point_winrates ==
    /\ \E info_string \in InfoStrings :
          IF GuardRaises(info_string)
          THEN returned' = Call("compute_point_winrates", info_string, Obj("ValueError", <<>>, <<>>))
          ELSE IF InvalidInfoString(info_string)
          THEN returned' = Call("compute_point_winrates", info_string, None)
          ELSE LET point_stats == RateStats(master_matches_df, "winnerTotalPoints",
                                            "loserTotalPoints")
               IN  \E order \in RowOrders(point_stats) :
                      returned' =
                          Call("compute_point_winrates", info_string,
                               Obj("DataFrame", RowsIn(point_stats, order),
                                   info_string.value))
    /\ UNCHANGED <<replayer_vars, master_matches_df, disk, events_shortlist,
                   payloads_files, file_pos, success_ids, no_singles_ids,
                   no_data_ids, error_ids>>

\* save_winrates(df, info_string, winrates_dir): df is any table; the match
\* table is the one saved here.
save_winrates ==
    /\ \E info_string \in InfoStrings :
          /\ returned' =
                Call("save_winrates", info_string,
                     IF GuardRaises(info_string) THEN Obj("ValueError", <<>>, <<>>)
                     ELSE None)
          /\ IF GuardRaises(info_string) \/ InvalidInfoString(info_string)
             THEN disk' = disk
             ELSE \E date_string \in Dates :
                     disk' =
                         [disk EXCEPT !["Winrates"] =
                             WriteFile(@, <<date_string, "_winrates_",
                                            safe_label(upper(info_string.value)),
                                            ".csv">>,
                                       master_matches_df)]
    /\ UNCHANGED <<replayer_vars, master_matches_df, events_shortlist,
                   payloads_files, file_pos, success_ids, no_singles_ids,
                   no_data_ids, error_ids>>

NextWinrates ==
    \/ compute_match_winrates
    \/ compute_set_winrates
    \/ compute_point_winrates
    \/ save_winrates

\* Match tables of up to MaxWinrateRows rows: ids present or missing, a match
\* won 3-0 or 3-2.
MaxWinrateRows == 2

WinrateIds == {1, 2, NaN}

WinrateKinds ==
    {WinrateRow(w, l, 3, ls, 33 + 4 * ls, 20 + 10 * ls) :
        w \in WinrateIds, l \in WinrateIds, ls \in {0, 2}}

\* The utilities' state before a win-rate function is called, the match table
\* aside.
WinratesIdle ==
    /\ ReplayerIdle
    /\ returned = NotCalled
    /\ disk = [d \in Dirs |-> {}]
    /\ events_shortlist = [columns |-> {}, rows |-> <<>>]
    /\ payloads_files = <<>>
    /\ file_pos = 0
    /\ success_ids = <<>>
    /\ no_singles_ids = <<>>
    /\ no_data_ids = <<>>
    /\ error_ids = <<>>

InitMatchWinrates ==
    /\ WinratesIdle
    /\ \E n \in 0..MaxWinrateRows : master_matches_df \in [1..n -> WinrateKinds]

\* Calls of compute_match_winrates on any such table.
SpecMatchWinrates == InitMatchWinrates /\ [][compute_match_winrates]_vars

\* Three tables: none, one and two matches.
ValidationTables ==
    {<<>>,
     <<WinrateRow(1, 2, 3, 0, 33, 20)>>,
     <<WinrateRow(1, 2, 3, 2, 41, 40), WinrateRow(2, NaN, 3, 0, 33, 20)>>}

InitWinrates ==
    /\ WinratesIdle
    /\ master_matches_df \in ValidationTables

\* Calls of the four functions of the file, in any order.
SpecWinrates == InitWinrates /\ [][NextWinrates]_vars

\* The ids of a match table: every value of winnerId or loserId that is not
\* missing.
IdsIn(df) ==
    ({df[k].winnerId : k \in 1..Len(df)} \cup {df[k].loserId : k \in 1..Len(df)})
    \ {NaN}

\* The sum of a column over the rows of a table.
RECURSIVE ColumnSum(_, _)
ColumnSum(rows, col) ==
    IF rows = <<>> THEN 0
    ELSE rows[Len(rows)][col] + ColumnSum(SubSeq(rows, 1, Len(rows) - 1), col)

\* C27: the table compute_match_winrates returns has exactly one row per id
\* that appears as winnerId or loserId; a row's TotalWins is the number of
\* matches its id won, TotalLosses the number it lost, TotalMatches their sum;
\* and when every match has both ids, the wins add up to the losses.
C27_MatchWinrateAggregation ==
    (returned.fn = "compute_match_winrates" /\ returned.value.type = "DataFrame") =>
        LET rows == returned.value.value
            df == master_matches_df
        IN  /\ {rows[k].playerId : k \in 1..Len(rows)} = IdsIn(df)
            /\ Len(rows) = Cardinality(IdsIn(df))
            /\ \A k \in 1..Len(rows) :
                  /\ rows[k].TotalWins =
                        Cardinality({m \in 1..Len(df) : df[m].winnerId = rows[k].playerId})
                  /\ rows[k].TotalLosses =
                        Cardinality({m \in 1..Len(df) : df[m].loserId = rows[k].playerId})
                  /\ rows[k].TotalMatches = rows[k].TotalWins + rows[k].TotalLosses
            /\ (\A m \in 1..Len(df) : df[m].winnerId # NaN /\ df[m].loserId # NaN)
                  => ColumnSum(rows, "TotalWins") = ColumnSum(rows, "TotalLosses")

\* A table was returned for two complete matches in which one player only won
\* and another only lost.
C27_Witness ==
    /\ returned.fn = "compute_match_winrates"
    /\ returned.value.type = "DataFrame"
    /\ Len(master_matches_df) = 2
    /\ \A m \in 1..2 : master_matches_df[m].winnerId = 1 /\ master_matches_df[m].loserId = 2
    /\ Len(returned.value.value) = 2
    /\ returned.value.value[1].TotalWins = 2
    /\ returned.value.value[2].TotalLosses = 2

\* The info_string values that are to be turned away: not a string, the empty
\* string, or whitespace only.
TurnedAway(info_string) ==
    \/ info_string.type # "str"
    \/ Len(info_string.value) = 0
    \/ \A k \in 1..Len(info_string.value) : info_string.value[k] \in Whitespace

\* C28: a call of compute_match_winrates, compute_set_winrates,
\* compute_point_winrates or save_winrates whose info_string is empty, not a
\* string or whitespace only returns None and leaves the disk as it was; with
\* any other info_string the compute functions return their table, labelled
\* with it, and save_winrates writes its file.
C28_InfoStringValidation ==
    [][LET call == returned'
       IN  IF TurnedAway(call.info_string)
           THEN call.value.type = "NoneType" /\ disk' = disk
           ELSE IF call.fn = "save_winrates"
                THEN \E f \in disk'["Winrates"] :
                        /\ f.content = master_matches_df
                        /\ Len(f.name[3]) = Len(call.info_string.value)
                ELSE /\ call.value.type = "DataFrame"
                     /\ call.value.label = call.info_string.value
                     /\ disk' = disk]_vars

\* ------------------------------------------------- utils/fetchPayloads.py

\* Text is a sequence of characters. The characters of file names and event
\* ids, in code-point order.
Alphabet ==
    <<".", "0", "1", "2", "3", "4", "5", "6", "7", "8", "9", "_",
      "a", "c", "d", "e", "g", "h", "i", "l", "m", "n", "o", "p", "s", "t", "v",
      "x", "y">>

Digits == {"0", "1", "2", "3", "4", "5", "6", "7", "8", "9"}

\* The place of a character in the code-point order.
Rank(c) == CHOOSE k \in 1..Len(Alphabet) : Alphabet[k] = c

\* a < b on str: at the first place the two differ, or a is a proper prefix.
LexLess(a, b) ==
    \E k \in 1..(Len(b)) :
        /\ k <= Len(a) + 1
        /\ \A j \in 1..(k - 1) : a[j] = b[j]
        /\ k = Len(a) + 1 \/ Rank(a[k]) < Rank(b[k])

\* sorted list of a set of texts.
SortedTexts(S) ==
    CHOOSE f \in [1..Cardinality(S) -> S] :
        \A a, b \in 1..Cardinality(S) : a < b => LexLess(f[a], f[b])

\* str.isdigit(): at least one character, all of them digits.
isdigit(chars) ==
    /\ Len(chars) > 0
    /\ \A k \in 1..Len(chars) : chars[k] \in Digits

\* astype(str) of a non-negative integer: its decimal digits.
RECURSIVE astype_str(_)
astype_str(n) ==
    IF n < 10 THEN <<Alphabet[n + 2]>>
    ELSE Append(astype_str(n \div 10), Alphabet[(n % 10) + 2])

\* The name ends in the given text.
EndsWith(name, suffix) ==
    /\ Len(name) >= Len(suffix)
    /\ SubSeq(name, Len(name) - Len(suffix) + 1, Len(name)) = suffix

DotCsv == <<".", "c", "s", "v">>

MatchPayloadsCsv ==
    <<"_", "m", "a", "t", "c", "h", "_", "p", "a", "y", "l", "o", "a", "d", "s">>
    \o DotCsv

\* The number of digits a name starts with.
DigitPrefixLen(name) ==
    CHOOSE n \in 0..Len(name) :
        /\ \A k \in 1..n : name[k] \in Digits
        /\ n < Len(name) => name[n + 1] \notin Digits

\* file_pattern.match(filename) for ^(\d+)_match_payloads\.csv$ : a match,
\* and the digits of group 1.
PatternMatches(name) ==
    /\ DigitPrefixLen(name) > 0
    /\ SubSeq(name, DigitPrefixLen(name) + 1, Len(name)) = MatchPayloadsCsv

PatternGroup1(name) == SubSeq(name, 1, DigitPrefixLen(name))

\* glob.glob(f"{directory}/*.csv"): the names in the directory ending in .csv.
GlobDotCsv(directory) ==
    {f.name : f \in {g \in disk[directory] : EndsWith(g.name, DotCsv)}}

\* existing_ids: group 1 of every globbed name the pattern matches.
ExistingIds(directory) ==
    {PatternGroup1(name) : name \in {n \in GlobDotCsv(directory) : PatternMatches(n)}}

\* An events table: the columns it has, and its rows.
EventRow(eventId, EventStatus) == [eventId |-> eventId, EventStatus |-> EventStatus]

\* set(events_shortlist['eventId'].astype(str).unique()).
AllEventIds(shortlist) ==
    {astype_str(shortlist.rows[k].eventId) : k \in 1..Len(shortlist.rows)}

\* The eventId, as str, of the rows whose EventStatus is 'Ongoing'.
OngoingIds(shortlist) ==
    {astype_str(shortlist.rows[k].eventId) :
        k \in {j \in 1..Len(shortlist.rows) : shortlist.rows[j].EventStatus = "Ongoing"}}

\* ids_to_scrape: the ids without a file, then the ongoing ones added, sorted.
IdsToScrape(shortlist, directory) ==
    SortedTexts((AllEventIds(shortlist) \ ExistingIds(directory))
                \cup OngoingIds(shortlist))

get_payloads_to_scrape ==
    /\ returned' =
          Call("get_payloads_to_scrape", None,
               IF "eventId" \notin events_shortlist.columns
               THEN Obj("list", <<>>, <<>>)
               ELSE IF "EventStatus" \notin events_shortlist.columns
               THEN Obj("KeyError", <<>>, <<>>)
               ELSE Obj("list", IdsToScrape(events_shortlist, "Match_payloads"), <<>>))
    /\ UNCHANGED <<replayer_vars, master_matches_df, disk, events_shortlist,
                   payloads_files, file_pos, success_ids, no_singles_ids,
                   no_data_ids, error_ids>>

\* Shortlists of up to MaxEvents rows, with or without their two columns, and
\* directories holding payload files and other files.
MaxEvents == 2

EventIds == {1, 2, 10}

ScrapeNames ==
    {astype_str(1) \o MatchPayloadsCsv,
     astype_str(10) \o MatchPayloadsCsv,
     <<"0", "2">> \o MatchPayloadsCsv,
     <<"2", "_", "o", "l", "d">> \o DotCsv,
     <<"n", "o", "t", "e", "s">> \o DotCsv,
     <<"2", "_", "m", "a", "t", "c", "h", ".", "t", "x", "t">>}

InitScrape ==
    /\ ReplayerIdle
    /\ master_matches_df = <<>>
    /\ returned = NotCalled
    /\ \E names \in SUBSET ScrapeNames :
          disk = [d \in Dirs |->
                     IF d = "Match_payloads"
                     THEN {File(n, <<>>) : n \in names} ELSE {}]
    /\ \E n \in 0..MaxEvents :
          \E rows \in [1..n -> {EventRow(e, st) : e \in EventIds,
                                                  st \in {"Ongoing", "Finished"}}],
             columns \in {{"eventId", "EventStatus"}, {"eventId"}, {"EventStatus"}} :
              events_shortlist = [columns |-> columns, rows |-> rows]
    /\ payloads_files = <<>>
    /\ file_pos = 0
    /\ success_ids = <<>>
    /\ no_singles_ids = <<>>
    /\ no_data_ids = <<>>
    /\ error_ids = <<>>

SpecScrape == InitScrape /\ [][get_payloads_to_scrape]_vars

\* C29: every id get_payloads_to_scrape returns is an eventId of the
\* shortlist, and none of them has its '<eventId>_match_payloads.csv' in the
\* directory.
C29_OnlyMissingPayloads ==
    (returned.fn = "get_payloads_to_scrape" /\ returned.value.type = "list") =>
        \A k \in 1..Len(returned.value.value) :
            LET id == returned.value.value[k]
            IN  /\ \E r \in 1..Len(events_shortlist.rows) :
                      id = astype_str(events_shortlist.rows[r].eventId)
                /\ id \o MatchPayloadsCsv
                      \notin {f.name : f \in disk["Match_payloads"]}

\* ------------------------------------------------ utils/filterPayloads.py

\* glob.glob(f"{raw_payloads_dir}/*csv"): the names ending in csv.
GlobCsv(directory) ==
    {f.name : f \in {g \in disk[directory] : EndsWith(g.name, <<"c", "s", "v">>)}}

\* os.path.basename(file).split('_')[0]: the name up to its first underscore,
\* the whole name when it has none.
SplitFirst(name) ==
    LET k == CHOOSE n \in 1..(Len(name) + 1) :
                 /\ \A j \in 1..(n - 1) : name[j] # "_"
                 /\ n <= Len(name) => name[n] = "_"
    IN  SubSeq(name, 1, k - 1)

\* What pd.read_csv meets in a file: no data at all ("empty"), a table with a
\* subEventType column ("table": its cells), a table without that column, or
\* bytes it cannot decode.
Content(kind, rows) == [kind |-> kind, rows |-> rows]

\* A subEventType cell: the words of its text, or a missing value.
Cell(words) == [na |-> FALSE, words |-> words]

MissingCell == [na |-> TRUE, words |-> <<>>]

\* REMOVE_STRINGS, and a word without its case.
REMOVE_STRINGS == <<"doubles", "mixed">>

LowerWord(word) ==
    CASE word = "Doubles" -> "doubles"
      [] word = "Mixed" -> "mixed"
      [] word = "Singles" -> "singles"
      [] word = "Men" -> "men"
      [] OTHER -> word

\* str.contains(pattern, na=False, case=False) with pattern the alternation of
\* REMOVE_STRINGS: some word of the cell is one of them, case aside; a missing
\* cell is no match.
remove_mask(cell) ==
    /\ ~cell.na
    /\ \E k \in 1..Len(cell.words), r \in 1..Len(REMOVE_STRINGS) :
          LowerWord(cell.words[k]) = LowerWord(REMOVE_STRINGS[r])

\* A cell the mask does not remove.
KeptCell(cell) == ~remove_mask(cell)

\* singles_payloads_df: the rows the mask does not remove.
singles_payloads_df(content) == SelectSeq(content.rows, KeptCell)

SinglesPayloadsCsv ==
    <<"_", "s", "i", "n", "g", "l", "e", "s", "_", "p", "a", "y", "l", "o", "a", "d", "s">>
    \o DotCsv

\* The file of the current iteration: its name, its event_id and its content.
InFilterLoop ==
    /\ returned.fn = "filter_singles_payloads"
    /\ returned.value.type = "pending"
    /\ file_pos < Len(payloads_files)

CurrentFile == payloads_files[file_pos + 1]

CurrentContent ==
    (CHOOSE f \in disk["Match_payloads"] : f.name = CurrentFile).content

\* Lines 25-37: the glob, the sort and the four empty lists.
FilterStart ==
    /\ returned = NotCalled
    /\ payloads_files' = SortedTexts(GlobCsv("Match_payloads"))
    /\ file_pos' = 0
    /\ success_ids' = <<>>
    /\ no_singles_ids' = <<>>
    /\ no_data_ids' = <<>>
    /\ error_ids' = <<>>
    /\ returned' = Call("filter_singles_payloads", None, Obj("pending", <<>>, <<>>))
    /\ UNCHANGED <<replayer_vars, master_matches_df, disk, events_shortlist>>

\* Lines 43-47: a name whose first part is not a number.
NameNotDigit ==
    /\ InFilterLoop
    /\ ~isdigit(SplitFirst(CurrentFile))
    /\ error_ids' = Append(error_ids, SplitFirst(CurrentFile))
    /\ file_pos' = file_pos + 1
    /\ UNCHANGED <<replayer_vars, master_matches_df, returned, disk,
                   events_shortlist, payloads_files, success_ids, no_singles_ids,
                   no_data_ids>>

\* Lines 52-65: the file is read, some row is kept, the kept rows are written
\* and the id joins success_ids; when to_csv raises (the directory cannot be
\* written), line 78 lists the id as an error instead.
SinglesSaved ==
    /\ InFilterLoop
    /\ isdigit(SplitFirst(CurrentFile))
    /\ CurrentContent.kind = "table"
    /\ singles_payloads_df(CurrentContent) # <<>>
    /\ \E written \in BOOLEAN :
          IF written
          THEN /\ disk' = [disk EXCEPT !["Singles_payloads"] =
                               WriteFile(@, SplitFirst(CurrentFile) \o SinglesPayloadsCsv,
                                         singles_payloads_df(CurrentContent))]
               /\ success_ids' = Append(success_ids, SplitFirst(CurrentFile))
               /\ error_ids' = error_ids
          ELSE /\ disk' = disk
               /\ success_ids' = success_ids
               /\ error_ids' = Append(error_ids, SplitFirst(CurrentFile))
    /\ file_pos' = file_pos + 1
    /\ UNCHANGED <<replayer_vars, master_matches_df, returned, events_shortlist,
                   payloads_files, no_singles_ids, no_data_ids>>

\* Lines 52-61, 66-67: the file is read and no row is kept.
NoSingles ==
    /\ InFilterLoop
    /\ isdigit(SplitFirst(CurrentFile))
    /\ CurrentContent.kind = "table"
    /\ singles_payloads_df(CurrentContent) = <<>>
    /\ no_singles_ids' = Append(no_singles_ids, SplitFirst(CurrentFile))
    /\ file_pos' = file_pos + 1
    /\ UNCHANGED <<replayer_vars, master_matches_df, returned, disk,
                   events_shortlist, payloads_files, success_ids, no_data_ids,
                   error_ids>>

\* Lines 52, 70-73: read_csv raises EmptyDataError.
EmptyData ==
    /\ InFilterLoop
    /\ isdigit(SplitFirst(CurrentFile))
    /\ CurrentContent.kind = "empty"
    /\ no_data_ids' = Append(no_data_ids, SplitFirst(CurrentFile))
    /\ file_pos' = file_pos + 1
    /\ UNCHANGED <<replayer_vars, master_matches_df, returned, disk,
                   events_shortlist, payloads_files, success_ids, no_singles_ids,
                   error_ids>>

\* Lines 52-55, 76-79: read_csv or the column lookup raises another exception.
OtherError ==
    /\ InFilterLoop
    /\ isdigit(SplitFirst(CurrentFile))
    /\ CurrentContent.kind \in {"no_column", "undecodable"}
    /\ error_ids' = Append(error_ids, SplitFirst(CurrentFile))
    /\ file_pos' = file_pos + 1
    /\ UNCHANGED <<replayer_vars, master_matches_df, returned, disk,
                   events_shortlist, payloads_files, success_ids, no_singles_ids,
                   no_data_ids>>

\* Line 90: the four lists are returned once the loop has consumed the files.
FilterReturn ==
    /\ returned.fn = "filter_singles_payloads"
    /\ returned.value.type = "pending"
    /\ file_pos = Len(payloads_files)
    /\ returned' =
          Call("filter_singles_payloads", None,
               Obj("tuple", <<success_ids, no_singles_ids, no_data_ids, error_ids>>,
                   <<>>))
    /\ UNCHANGED <<replayer_vars, master_matches_df, disk, events_shortlist,
                   payloads_files, file_pos, success_ids, no_singles_ids,
                   no_data_ids, error_ids>>

filter_singles_payloads ==
    \/ FilterStart
    \/ NameNotDigit
    \/ SinglesSaved
    \/ NoSingles
    \/ EmptyData
    \/ OtherError
    \/ FilterReturn

\* Raw directories of up to MaxFiles files: payload files as the scraper names
\* them, a second file of event 1, a file that is no payload file and one
\* the glob passes over; each holding any of the contents read_csv can meet.
MaxFiles == 2

RawNames ==
    {astype_str(1) \o MatchPayloadsCsv,
     astype_str(2) \o MatchPayloadsCsv,
     <<"1", "_", "o", "l", "d">> \o DotCsv,
     <<"n", "o", "t", "e", "s">> \o DotCsv,
     <<"2", "_", "m", "a", "t", "c", "h", ".", "t", "x", "t">>}

RawContents ==
    {Content("empty", <<>>),
     Content("no_column", <<>>),
     Content("undecodable", <<>>),
     Content("table", <<>>),
     Content("table", <<Cell(<<"Men", "Singles">>)>>),
     Content("table", <<Cell(<<"Mixed", "Doubles">>)>>),
     Content("table", <<Cell(<<"Men", "doubles">>), MissingCell>>)}

InitSingles ==
    /\ ReplayerIdle
    /\ master_matches_df = <<>>
    /\ returned = NotCalled
    /\ events_shortlist = [columns |-> {}, rows |-> <<>>]
    /\ \E names \in {S \in SUBSET RawNames : Cardinality(S) <= MaxFiles} :
          \E content \in [names -> RawContents] :
              disk = [d \in Dirs |->
                         IF d = "Match_payloads"
                         THEN {File(n, content[n]) : n \in names} ELSE {}]
    /\ payloads_files = <<>>
    /\ file_pos = 0
    /\ success_ids = <<>>
    /\ no_singles_ids = <<>>
    /\ no_data_ids = <<>>
    /\ error_ids = <<>>

SpecSingles == InitSingles /\ [][filter_singles_payloads]_vars

\* The items of a list.
Items(list) == {list[k] : k \in 1..Len(list)}

\* C30: in what filter_singles_payloads returns, the event id of every file
\* found is in exactly one of the four lists, the four lists have no id in
\* common pairwise, and between them they hold one entry per file found,
\* whatever failed on an earlier file.
C30_ExactlyOneList ==
    (returned.fn = "filter_singles_payloads" /\ returned.value.type = "tuple") =>
        LET lists == returned.value.value
        IN  /\ \A k \in 1..Len(payloads_files) :
                  Cardinality({n \in 1..4 :
                      SplitFirst(payloads_files[k]) \in Items(lists[n])}) = 1
            /\ \A a, b \in 1..4 : a # b => Items(lists[a]) \cap Items(lists[b]) = {}
            /\ Len(lists[1]) + Len(lists[2]) + Len(lists[3]) + Len(lists[4])
                  = Len(payloads_files)
            /\ payloads_files = SortedTexts(GlobCsv("Match_payloads"))

====
